---- MODULE Spec2Model ----
(***************************************************************************)
(* Model of the Binokel score keeper (src/app.py): the Overview table, the *)
(* per-game round tables "<game_id>" and the HTTP handlers that read and   *)
(* write them.  In Spec an action is one completed request: requests are   *)
(* served one at a time, each seeing the database the previous one         *)
(* committed.  SpecSteps follows one request statement by statement, with  *)
(* GET requests and a crash between its commits.                           *)
(***************************************************************************)
EXTENDS Integers, Sequences, FiniteSets, TLC

\* ------------------------------------------------------------------ bounds

\* Highest id the AUTOINCREMENT sequence of Overview hands out in the model.
MaxGames == 2
\* Most rows all round tables hold together (the size of the database file).
\* A request that would insert one more row is not served.  The invariants
\* and action properties below were also checked with MaxGames = 1 and
\* MaxRows = 3 (87,200 states), where a ledger grows to three rounds.
MaxRows == 2

\* ------------------------------------------------------------------ inputs

\* SQL NULL / Python None.  A nullable column holds NULL or <<v>>.
NULL == <<>>

Some(v) == <<v>>

\* Python's `x or 0` on a nullable INTEGER column.
OrZero(x) == IF x = NULL \/ x = Some(0) THEN 0 ELSE x[1]

\* Python's `x or 1` on a nullable INTEGER column.
OrOne(x) == IF x = NULL \/ x = Some(0) THEN 1 ELSE x[1]

GameIds == 1..MaxGames

RoundNos == 1..MaxRows

\* Form values of POST /api/games: four names and the first dealer.
PlayerForms == {<<"Anna", "Ben", "Cara", "Dan">>, <<"Anna", " ", "Cara", "Dan">>}

MixingForms == {0, 4, 5}

Melds == {50, 900}

Plays == {100}

BaseForm ==
    [bid_value |-> 220, bid_team |-> 1, meld_team1 |-> 50, meld_team2 |-> 50,
     play_team1 |-> 100, play_team2 |-> 100, mode |-> "normal"]

\* Well-formed form values of POST .../calculate: every scored round, and
\* the two "thousand" calls (which read nothing but bid_team).
ValidForms ==
    [bid_value : {220, 1000}, bid_team : {1, 2},
     meld_team1 : Melds, meld_team2 : Melds,
     play_team1 : Plays, play_team2 : Plays,
     mode : {"normal", "einfach_ab"}]
    \cup {[BaseForm EXCEPT !.mode = "thousand", !.bid_team = t] : t \in {1, 2}}

\* Malformed form values: one field of BaseForm out of range.
InvalidForms ==
    {[BaseForm EXCEPT !.bid_value = 190], [BaseForm EXCEPT !.bid_value = 205],
     [BaseForm EXCEPT !.bid_team = 0], [BaseForm EXCEPT !.bid_team = 3],
     [BaseForm EXCEPT !.mode = "doppelt"]}

\* Form values with a negative meld or play.
NegativeForms ==
    {[BaseForm EXCEPT !.meld_team1 = -50],
     [BaseForm EXCEPT !.bid_team = 2, !.play_team1 = -100, !.mode = "einfach_ab"]}

CalcForms == ValidForms \cup InvalidForms \cup NegativeForms

\* ------------------------------------------------------------------- state

VARIABLES
    Overview,         \* table Overview: id -> row
    tables,           \* the round tables: game id -> rows in insertion order
    sqlite_sequence,  \* AUTOINCREMENT counter of Overview
    last,             \* the last request served and its response
    pending           \* the request that is being served statement by statement

vars == <<Overview, tables, sqlite_sequence, last, pending>>

\* str.strip() on the names of PlayerForms.
strip(s) == IF s = " " THEN "" ELSE s

\* A row of a round table with only round and mixing set (the other columns NULL).
NewRound(round, mixing, total_team1, total_team2) ==
    [round |-> Some(round), mixing |-> Some(mixing),
     bid_value |-> NULL, bid_team |-> NULL,
     meld_team1 |-> NULL, meld_team2 |-> NULL,
     play_team1 |-> NULL, play_team2 |-> NULL,
     confirmed |-> NULL, result_team1 |-> NULL, result_team2 |-> NULL,
     total_team1 |-> total_team1, total_team2 |-> total_team2]

\* NewOverview with columns end_points_team1/2 that have no default.
NewOverview_nullable(names) ==
    [player1 |-> names[1], player2 |-> names[2],
     player3 |-> names[3], player4 |-> names[4],
     team1 |-> <<names[1], names[3]>>, team2 |-> <<names[2], names[4]>>,
     end_points_team1 |-> NULL, end_points_team2 |-> NULL,
     winner |-> NULL]

\* INSERT INTO Overview: end_points default to 0, winner to NULL.
NewOverview(names) ==
    [player1 |-> names[1], player2 |-> names[2],
     player3 |-> names[3], player4 |-> names[4],
     team1 |-> <<names[1], names[3]>>, team2 |-> <<names[2], names[4]>>,
     end_points_team1 |-> Some(0), end_points_team2 |-> Some(0),
     winner |-> NULL]

\* CREATE TABLE IF NOT EXISTS "<game_id>".
ensure_game_table(tbls, game_id) ==
    IF game_id \in DOMAIN tbls THEN tbls
    ELSE [g \in DOMAIN tbls \cup {game_id} |-> IF g = game_id THEN <<>> ELSE tbls[g]]

\* ORDER BY round ASC: insertion of one row into a sorted sequence, after
\* the rows whose round is not greater.
RECURSIVE InsertSorted(_, _)
InsertSorted(row, sorted) ==
    IF sorted = <<>> THEN <<row>>
    ELSE IF OrZero(row.round) < OrZero(Head(sorted).round)
         THEN <<row>> \o sorted
         ELSE <<Head(sorted)>> \o InsertSorted(row, Tail(sorted))

RECURSIVE OrderByRound(_)
OrderByRound(rows) ==
    IF rows = <<>> THEN <<>>
    ELSE InsertSorted(rows[Len(rows)], OrderByRound(SubSeq(rows, 1, Len(rows) - 1)))

\* SELECT * FROM "<game_id>" ORDER BY round ASC.
fetch_rounds(tbls, game_id) == OrderByRound(tbls[game_id])

\* compute_previous_totals forgetting the rounds played so far.
compute_previous_totals_none(rounds) == <<0, 0>>

compute_previous_totals(rounds) ==
    IF rounds = <<>> THEN <<0, 0>>
    ELSE <<OrZero(rounds[Len(rounds)].total_team1),
           OrZero(rounds[Len(rounds)].total_team2)>>

\* Rows held by all round tables together.
RECURSIVE RowCount(_, _)
RowCount(tbls, ids) ==
    IF ids = {} THEN 0
    ELSE LET g == CHOOSE x \in ids : TRUE
         IN Len(tbls[g]) + RowCount(tbls, ids \ {g})

\* What `last` keeps of a request and its response: the route, the path
\* parameters, the posted mode of a calculation that succeeded, the HTTP
\* status and the JSON body of a 200 (an error's detail text is dropped).
Response(op, game_id, round_no, mode, status, body) ==
    [op |-> op, game_id |-> game_id, round_no |-> round_no,
     mode |-> IF status = 200 THEN mode ELSE "",
     status |-> status,
     body |-> IF status = 200 THEN body ELSE <<>>]

\* No request is part-way: pc is the statement it would execute next, tx
\* the database as its connection sees it while its transaction is open.
Idle ==
    [pc |-> "idle", game_id |-> 0, round_no |-> 0, form |-> BaseForm,
     mixing |-> 0, rounds |-> <<>>, tx |-> NULL]

Init ==
    /\ Overview = <<>>
    /\ tables = <<>>
    /\ sqlite_sequence = 0
    /\ last = Response("startup", 0, 0, "", 200, <<>>)
    /\ pending = Idle

\* --------------------------------------------------------- POST /api/games

api_create_game(form, mixing_first_round) ==
    LET names == [i \in 1..4 |-> strip(form[i])]
        game_id == sqlite_sequence + 1
        created == ensure_game_table(tables, game_id)
    IN IF \E i \in 1..4 : names[i] = ""
       THEN /\ last' = Response("create", 0, 0, "", 400, "Alle Spielernamen angeben")
            /\ UNCHANGED <<Overview, tables, sqlite_sequence>>
       ELSE IF mixing_first_round \notin {1, 2, 3, 4}
       THEN /\ last' = Response("create", 0, 0, "", 400, "Mischer muss 1-4 sein")
            /\ UNCHANGED <<Overview, tables, sqlite_sequence>>
       ELSE /\ game_id <= MaxGames
            /\ RowCount(tables, DOMAIN tables) < MaxRows
            /\ Overview' = [g \in DOMAIN Overview \cup {game_id} |->
                              IF g = game_id THEN NewOverview(names) ELSE Overview[g]]
            /\ sqlite_sequence' = game_id
            /\ tables' = [created EXCEPT ![game_id] =
                              Append(@, NewRound(1, mixing_first_round, NULL, NULL))]
            /\ last' = Response("create", game_id, 0, "", 200, [id |-> game_id])

\* ------------------------------------------------ DELETE /api/games/{game_id}

\* api_delete_game that leaves the game's table in place.
api_delete_game_keep_table(game_id) ==
    IF game_id \notin DOMAIN Overview
    THEN /\ last' = Response("delete", game_id, 0, "", 404, "Game not found")
         /\ UNCHANGED <<Overview, tables, sqlite_sequence>>
    ELSE /\ Overview' = [g \in DOMAIN Overview \ {game_id} |-> Overview[g]]
         /\ last' = Response("delete", game_id, 0, "", 200, [ok |-> TRUE])
         /\ UNCHANGED <<tables, sqlite_sequence>>

\* api_delete_game without the fetch_overview call.
api_delete_game_idempotent(game_id) ==
    /\ tables' = [g \in DOMAIN tables \ {game_id} |-> tables[g]]
    /\ Overview' = [g \in DOMAIN Overview \ {game_id} |-> Overview[g]]
    /\ last' = Response("delete", game_id, 0, "", 200, [ok |-> TRUE])
    /\ UNCHANGED sqlite_sequence

api_delete_game(game_id) ==
    IF game_id \notin DOMAIN Overview
    THEN /\ last' = Response("delete", game_id, 0, "", 404, "Game not found")
         /\ UNCHANGED <<Overview, tables, sqlite_sequence>>
    ELSE /\ tables' = [g \in DOMAIN tables \ {game_id} |-> tables[g]]
         /\ Overview' = [g \in DOMAIN Overview \ {game_id} |-> Overview[g]]
         /\ last' = Response("delete", game_id, 0, "", 200, [ok |-> TRUE])
         /\ UNCHANGED sqlite_sequence

\* ------------------------- POST /api/games/{game_id}/rounds/{round_no}/calculate

\* thousand_outcome that names Team 1 whoever bid.
thousand_outcome_team1(bid_team) ==
    [end_points_team1 |-> 1000, end_points_team2 |-> 0, winner |-> "Team 1"]

\* mode "thousand": the bidding team wins at once.
thousand_outcome(bid_team) ==
    IF bid_team = 1
    THEN [end_points_team1 |-> 1000, end_points_team2 |-> 0, winner |-> "Team 1"]
    ELSE [end_points_team1 |-> 0, end_points_team2 |-> 1000, winner |-> "Team 2"]

\* einfach_ab_result evaluating the bid as a normal round does.
einfach_ab_result_checked(form) ==
    IF form.bid_team = 1
    THEN [confirmed |-> IF form.meld_team1 + form.play_team1 >= form.bid_value
                        THEN 1 ELSE 0,
          result_team1 |-> -form.bid_value,
          result_team2 |-> form.meld_team2 + form.play_team2]
    ELSE [confirmed |-> IF form.meld_team2 + form.play_team2 >= form.bid_value
                        THEN 1 ELSE 0,
          result_team1 |-> form.meld_team1 + form.play_team1,
          result_team2 |-> -form.bid_value]

\* mode "einfach_ab": the bidding team loses its bid once.
einfach_ab_result(form) ==
    IF form.bid_team = 1
    THEN [confirmed |-> 0,
          result_team1 |-> -form.bid_value,
          result_team2 |-> form.meld_team2 + form.play_team2]
    ELSE [confirmed |-> 0,
          result_team1 |-> form.meld_team1 + form.play_team1,
          result_team2 |-> -form.bid_value]

\* normal_result confirming only a bid that is exceeded.
normal_result_strict(form) ==
    IF form.bid_team = 1
    THEN LET confirmed == IF form.meld_team1 + form.play_team1 > form.bid_value
                          THEN 1 ELSE 0
         IN [confirmed |-> confirmed,
             result_team1 |-> IF confirmed = 1
                              THEN form.meld_team1 + form.play_team1
                              ELSE -form.bid_value * 2,
             result_team2 |-> form.meld_team2 + form.play_team2]
    ELSE LET confirmed == IF form.meld_team2 + form.play_team2 > form.bid_value
                          THEN 1 ELSE 0
         IN [confirmed |-> confirmed,
             result_team2 |-> IF confirmed = 1
                              THEN form.meld_team2 + form.play_team2
                              ELSE -form.bid_value * 2,
             result_team1 |-> form.meld_team1 + form.play_team1]

\* mode "normal": the bid is confirmed by meld + play, or lost twice.
normal_result(form) ==
    IF form.bid_team = 1
    THEN LET confirmed == IF form.meld_team1 + form.play_team1 >= form.bid_value
                          THEN 1 ELSE 0
         IN [confirmed |-> confirmed,
             result_team1 |-> IF confirmed = 1
                              THEN form.meld_team1 + form.play_team1
                              ELSE -form.bid_value * 2,
             result_team2 |-> form.meld_team2 + form.play_team2]
    ELSE LET confirmed == IF form.meld_team2 + form.play_team2 >= form.bid_value
                          THEN 1 ELSE 0
         IN [confirmed |-> confirmed,
             result_team2 |-> IF confirmed = 1
                              THEN form.meld_team2 + form.play_team2
                              ELSE -form.bid_value * 2,
             result_team1 |-> form.meld_team1 + form.play_team1]

round_result(form) ==
    IF form.mode = "einfach_ab" THEN einfach_ab_result(form) ELSE normal_result(form)

\* game_end letting either team's total of 1000 end the game.
game_end_either_team(bid_team, total_team1, total_team2) ==
    IF total_team1 >= 1000 THEN [winner |-> Some("Team 1"), game_finished |-> TRUE]
    ELSE IF total_team2 >= 1000 THEN [winner |-> Some("Team 2"), game_finished |-> TRUE]
    ELSE IF bid_team = 1 /\ total_team1 <= -1000
         THEN [winner |-> Some("Team 2"), game_finished |-> TRUE]
    ELSE IF bid_team = 2 /\ total_team2 <= -1000
         THEN [winner |-> Some("Team 1"), game_finished |-> TRUE]
    ELSE [winner |-> NULL, game_finished |-> FALSE]

\* game_end that knows no lost game.
game_end_win_only(bid_team, total_team1, total_team2) ==
    IF bid_team = 1 /\ total_team1 >= 1000
    THEN [winner |-> Some("Team 1"), game_finished |-> TRUE]
    ELSE IF bid_team = 2 /\ total_team2 >= 1000
    THEN [winner |-> Some("Team 2"), game_finished |-> TRUE]
    ELSE [winner |-> NULL, game_finished |-> FALSE]

\* "Pruefen auf Spielende": only the bidding team's total is looked at.
game_end(bid_team, total_team1, total_team2) ==
    IF bid_team = 1
    THEN IF total_team1 >= 1000 THEN [winner |-> Some("Team 1"), game_finished |-> TRUE]
         ELSE IF total_team1 <= -1000
              THEN [winner |-> Some("Team 2"), game_finished |-> TRUE]
              ELSE [winner |-> NULL, game_finished |-> FALSE]
    ELSE IF total_team2 >= 1000 THEN [winner |-> Some("Team 2"), game_finished |-> TRUE]
         ELSE IF total_team2 <= -1000
              THEN [winner |-> Some("Team 1"), game_finished |-> TRUE]
              ELSE [winner |-> NULL, game_finished |-> FALSE]

\* next_round without the increment.
next_round_same(round_no) == round_no

next_round(round_no) == round_no + 1

\* next_mixing that counts on past 4.
next_mixing_nowrap(rounds) == OrOne(rounds[Len(rounds)].mixing) + 1

next_mixing(rounds) == (OrOne(rounds[Len(rounds)].mixing) % 4) + 1

\* resolve_round that leaves bid_value and bid_team out of the UPDATE.
resolve_round_without_bid(row, form, res, total_team1, total_team2) ==
    [row EXCEPT !.meld_team1 = Some(form.meld_team1), !.meld_team2 = Some(form.meld_team2),
                !.play_team1 = Some(form.play_team1), !.play_team2 = Some(form.play_team2),
                !.confirmed = Some(res.confirmed),
                !.result_team1 = Some(res.result_team1),
                !.result_team2 = Some(res.result_team2),
                !.total_team1 = Some(total_team1), !.total_team2 = Some(total_team2)]

\* UPDATE "<game_id>" SET ... WHERE round=?
resolve_round(row, form, res, total_team1, total_team2) ==
    [row EXCEPT !.bid_value = Some(form.bid_value), !.bid_team = Some(form.bid_team),
                !.meld_team1 = Some(form.meld_team1), !.meld_team2 = Some(form.meld_team2),
                !.play_team1 = Some(form.play_team1), !.play_team2 = Some(form.play_team2),
                !.confirmed = Some(res.confirmed),
                !.result_team1 = Some(res.result_team1),
                !.result_team2 = Some(res.result_team2),
                !.total_team1 = Some(total_team1), !.total_team2 = Some(total_team2)]

update_round(rows, round_no, form, res, total_team1, total_team2) ==
    [i \in 1..Len(rows) |->
        IF rows[i].round = Some(round_no)
        THEN resolve_round(rows[i], form, res, total_team1, total_team2)
        ELSE rows[i]]

\* DELETE FROM "<game_id>" WHERE round=?
delete_round(rows, round_no) == SelectSeq(rows, LAMBDA r : r.round # Some(round_no))

\* set_outcome binding the two end points in the wrong order.
set_outcome_swapped(ov, game_id, end_points_team1, end_points_team2, winner) ==
    [ov EXCEPT ![game_id] = [@ EXCEPT !.end_points_team1 = Some(end_points_team2),
                                      !.end_points_team2 = Some(end_points_team1),
                                      !.winner = Some(winner)]]

\* set_outcome without the WHERE clause.
set_outcome_all(ov, game_id, end_points_team1, end_points_team2, winner) ==
    [g \in DOMAIN ov |-> [ov[g] EXCEPT !.end_points_team1 = Some(end_points_team1),
                                       !.end_points_team2 = Some(end_points_team2),
                                       !.winner = Some(winner)]]

\* UPDATE Overview SET end_points_team1=?, end_points_team2=?, winner=? WHERE id=?
set_outcome(ov, game_id, end_points_team1, end_points_team2, winner) ==
    [ov EXCEPT ![game_id] = [@ EXCEPT !.end_points_team1 = Some(end_points_team1),
                                      !.end_points_team2 = Some(end_points_team2),
                                      !.winner = Some(winner)]]

\* invalid_bid_value without the step of 10.
invalid_bid_value_min_only(bid_value) == bid_value < 200

\* "Gereizt Wert muss ab 200 in 10er Schritten sein"
invalid_bid_value(bid_value) == bid_value < 200 \/ bid_value % 10 # 0

\* not_last_round refusing only an empty ledger.
not_last_round_empty_only(rounds, round_no) == rounds = <<>>

\* "Nur die letzte Runde kann bearbeitet werden"
not_last_round(rounds, round_no) ==
    rounds = <<>> \/ Some(round_no) # rounds[Len(rounds)].round

CalcError(game_id, round_no, form, status, detail) ==
    /\ last' = Response("calculate", game_id, round_no, form.mode, status, detail)
    /\ UNCHANGED <<Overview, tables, sqlite_sequence>>

api_calculate_round(game_id, round_no, form) ==
    IF invalid_bid_value(form.bid_value)
    THEN CalcError(game_id, round_no, form, 400,
                   "Gereizt Wert muss ab 200 in 10er Schritten sein")
    ELSE IF form.bid_team \notin {1, 2}
    THEN CalcError(game_id, round_no, form, 400, "Gereizt Team muss 1 oder 2 sein")
    ELSE IF form.mode \notin {"normal", "einfach_ab", "thousand"}
    THEN CalcError(game_id, round_no, form, 400, "Ungueltiger Modus")
    ELSE IF game_id \notin DOMAIN Overview
    THEN CalcError(game_id, round_no, form, 404, "Game not found")
    ELSE
    LET ensured == ensure_game_table(tables, game_id)
        rounds == fetch_rounds(ensured, game_id)
    IN IF not_last_round(rounds, round_no)
       THEN /\ last' = Response("calculate", game_id, round_no, form.mode, 400,
                                "Nur die letzte Runde kann bearbeitet werden")
            /\ tables' = ensured
            /\ UNCHANGED <<Overview, sqlite_sequence>>
       ELSE
       LET prev == compute_previous_totals(SubSeq(rounds, 1, Len(rounds) - 1))
       IN IF form.mode = "thousand"
          THEN LET out == thousand_outcome(form.bid_team)
               IN /\ Overview' = set_outcome(Overview, game_id, out.end_points_team1,
                                             out.end_points_team2, out.winner)
                  /\ tables' = [ensured EXCEPT ![game_id] = delete_round(@, round_no)]
                  /\ last' = Response("calculate", game_id, round_no, form.mode, 200,
                        [status |-> "thousand", winner |-> Some(out.winner),
                         end_points_team1 |-> out.end_points_team1,
                         end_points_team2 |-> out.end_points_team2])
                  /\ UNCHANGED sqlite_sequence
          ELSE
          LET res == round_result(form)
              total_team1 == prev[1] + res.result_team1
              total_team2 == prev[2] + res.result_team2
              updated == update_round(ensured[game_id], round_no, form, res,
                                      total_team1, total_team2)
              end == game_end(form.bid_team, total_team1, total_team2)
          IN /\ IF end.game_finished
                THEN /\ Overview' = set_outcome(Overview, game_id, total_team1,
                                                total_team2, end.winner[1])
                     /\ tables' = [ensured EXCEPT ![game_id] = updated]
                ELSE /\ RowCount(tables, DOMAIN tables) < MaxRows
                     /\ tables' = [ensured EXCEPT ![game_id] =
                            Append(updated, NewRound(next_round(round_no), next_mixing(rounds),
                                                     Some(total_team1), Some(total_team2)))]
                     /\ UNCHANGED Overview
             /\ last' = Response("calculate", game_id, round_no, form.mode, 200,
                    [status |-> "ok", game_finished |-> end.game_finished,
                     winner |-> end.winner,
                     totals |-> [team1 |-> total_team1, team2 |-> total_team2]])
             /\ UNCHANGED sqlite_sequence

\* ------------------------------------------------- GET /api/games/{game_id}

api_get_game(game_id) ==
    /\ last' =
         IF game_id \notin DOMAIN Overview
         THEN Response("get", game_id, 0, "", 404, "Game not found")
         ELSE IF game_id \notin DOMAIN tables
         THEN Response("get", game_id, 0, "", 500, "no such table")
         ELSE Response("get", game_id, 0, "", 200,
                       [overview |-> Overview[game_id],
                        rounds |-> fetch_rounds(tables, game_id)])
    /\ UNCHANGED <<Overview, tables, sqlite_sequence>>

\* ------------------------------------------------------------ GET /api/games

\* ORDER BY id DESC
RECURSIVE OrderByIdDesc(_)
OrderByIdDesc(ids) ==
    IF ids = {} THEN <<>>
    ELSE LET top == CHOOSE x \in ids : \A y \in ids : y <= x
         IN <<top>> \o OrderByIdDesc(ids \ {top})

api_games ==
    /\ last' = Response("list", 0, 0, "", 200,
                        [i \in 1..Cardinality(DOMAIN Overview) |->
                            [id |-> OrderByIdDesc(DOMAIN Overview)[i],
                             row |-> Overview[OrderByIdDesc(DOMAIN Overview)[i]]]])
    /\ UNCHANGED <<Overview, tables, sqlite_sequence>>

\* The requests served one after the other, each from start to end.
Next ==
    \/ api_games /\ UNCHANGED pending
    \/ \E form \in PlayerForms, mixing \in MixingForms :
          api_create_game(form, mixing) /\ UNCHANGED pending
    \/ \E game_id \in GameIds, round_no \in RoundNos, form \in CalcForms :
          api_calculate_round(game_id, round_no, form) /\ UNCHANGED pending
    \/ \E game_id \in GameIds : api_get_game(game_id) /\ UNCHANGED pending
    \/ \E game_id \in GameIds : api_delete_game(game_id) /\ UNCHANGED pending

Spec == Init /\ [][Next]_vars

\* ------------------------------------- requests served statement by statement
\*
\* One request at a time is followed statement by statement (pending); the
\* steps are the places where its connection commits.  Between two steps
\* GET requests are served, and a request for another game is served whole
\* unless a transaction is open (the open transaction holds the write lock
\* of the database file).  Requests for the game of the pending request are
\* not started: callers serialize the mutations of one game.

\* Form values of the requests of SpecSteps: a round that goes on, one that
\* ends the game, a "thousand" and a malformed bid.
StepForms ==
    {BaseForm, [BaseForm EXCEPT !.meld_team1 = 900],
     [BaseForm EXCEPT !.mode = "thousand", !.bid_team = 2],
     [BaseForm EXCEPT !.bid_value = 190]}

TxOpen == pending.tx # NULL

\* conn.execute with isolation_level None: every statement commits at once.
execute_autocommit(db, image) == [db |-> image, tx |-> Some(image)]

\* conn.execute of an INSERT, UPDATE or DELETE: sqlite3 opens a transaction,
\* the statement's effect (image) stays in the connection until commit().
execute(db, image) == [db |-> db, tx |-> Some(image)]

\* What the statements of a scored round are computed from.
scored_round(form, rounds) ==
    LET prev == compute_previous_totals(SubSeq(rounds, 1, Len(rounds) - 1))
        res == round_result(form)
        total_team1 == prev[1] + res.result_team1
        total_team2 == prev[2] + res.result_team2
    IN [res |-> res, total_team1 |-> total_team1, total_team2 |-> total_team2,
        end |-> game_end(form.bid_team, total_team1, total_team2)]

\* INSERT INTO Overview and commit; the game exists from here on.
create_insert_overview(form, mixing_first_round) ==
    LET names == [i \in 1..4 |-> strip(form[i])]
        game_id == sqlite_sequence + 1
    IN /\ pending = Idle
       /\ \A i \in 1..4 : names[i] # ""
       /\ mixing_first_round \in {1, 2, 3, 4}
       /\ game_id <= MaxGames
       /\ RowCount(tables, DOMAIN tables) < MaxRows
       /\ Overview' = [g \in DOMAIN Overview \cup {game_id} |->
                         IF g = game_id THEN NewOverview(names) ELSE Overview[g]]
       /\ sqlite_sequence' = game_id
       /\ pending' = [Idle EXCEPT !.pc = "create_table", !.game_id = game_id,
                                  !.mixing = mixing_first_round]
       /\ UNCHANGED <<tables, last>>

\* ensure_game_table(game_id): CREATE TABLE IF NOT EXISTS and commit.
create_ensure_game_table ==
    /\ pending.pc = "create_table"
    /\ tables' = ensure_game_table(tables, pending.game_id)
    /\ pending' = [pending EXCEPT !.pc = "create_round"]
    /\ UNCHANGED <<Overview, sqlite_sequence, last>>

\* INSERT round 1, commit, and the response.
create_insert_round ==
    /\ pending.pc = "create_round"
    /\ tables' = [tables EXCEPT ![pending.game_id] =
                     Append(@, NewRound(1, pending.mixing, NULL, NULL))]
    /\ last' = Response("create", pending.game_id, 0, "", 200, [id |-> pending.game_id])
    /\ pending' = Idle
    /\ UNCHANGED <<Overview, sqlite_sequence>>

\* The checks and reads of a calculate that goes on to write.
calculate_read(game_id, round_no, form) ==
    LET ensured == ensure_game_table(tables, game_id)
        rounds == fetch_rounds(ensured, game_id)
    IN /\ pending = Idle
       /\ ~invalid_bid_value(form.bid_value)
       /\ form.bid_team \in {1, 2}
       /\ form.mode \in {"normal", "einfach_ab", "thousand"}
       /\ game_id \in DOMAIN Overview
       /\ ~not_last_round(rounds, round_no)
       /\ (form.mode # "thousand" /\ ~scored_round(form, rounds).end.game_finished)
            => RowCount(tables, DOMAIN tables) < MaxRows
       /\ tables' = ensured
       /\ pending' = [Idle EXCEPT !.pc = "first_write", !.game_id = game_id,
                                  !.round_no = round_no, !.form = form,
                                  !.rounds = rounds]
       /\ UNCHANGED <<Overview, sqlite_sequence, last>>

\* The first statement: UPDATE Overview (thousand) or UPDATE of the round.
calculate_first_write ==
    LET g == pending.game_id
        form == pending.form
        out == thousand_outcome(form.bid_team)
        sc == scored_round(form, pending.rounds)
        image == IF form.mode = "thousand"
                 THEN [Overview |-> set_outcome(Overview, g, out.end_points_team1,
                                                out.end_points_team2, out.winner),
                       tables |-> tables]
                 ELSE [Overview |-> Overview,
                       tables |-> [tables EXCEPT ![g] =
                                     update_round(@, pending.round_no, form, sc.res,
                                                  sc.total_team1, sc.total_team2)]]
        done == execute([Overview |-> Overview, tables |-> tables], image)
    IN /\ pending.pc = "first_write"
       /\ Overview' = done.db.Overview
       /\ tables' = done.db.tables
       /\ pending' = [pending EXCEPT !.pc = "second_write", !.tx = done.tx]
       /\ UNCHANGED <<sqlite_sequence, last>>

\* The second statement: DELETE of the round (thousand), UPDATE Overview
\* (game over) or INSERT of the next round.
calculate_second_write ==
    LET g == pending.game_id
        form == pending.form
        seen == pending.tx[1]
        sc == scored_round(form, pending.rounds)
        image == IF form.mode = "thousand"
                 THEN [seen EXCEPT !.tables[g] = delete_round(@, pending.round_no)]
                 ELSE IF sc.end.game_finished
                 THEN [seen EXCEPT !.Overview =
                         set_outcome(@, g, sc.total_team1, sc.total_team2, sc.end.winner[1])]
                 ELSE [seen EXCEPT !.tables[g] =
                         Append(@, NewRound(next_round(pending.round_no),
                                            next_mixing(pending.rounds),
                                            Some(sc.total_team1), Some(sc.total_team2)))]
        done == execute([Overview |-> Overview, tables |-> tables], image)
    IN /\ pending.pc = "second_write"
       /\ Overview' = done.db.Overview
       /\ tables' = done.db.tables
       /\ pending' = [pending EXCEPT !.pc = "commit", !.tx = done.tx]
       /\ UNCHANGED <<sqlite_sequence, last>>

\* conn.commit() and the response.
calculate_commit ==
    LET form == pending.form
        out == thousand_outcome(form.bid_team)
        sc == scored_round(form, pending.rounds)
    IN /\ pending.pc = "commit"
       /\ Overview' = pending.tx[1].Overview
       /\ tables' = pending.tx[1].tables
       /\ last' = IF form.mode = "thousand"
                  THEN Response("calculate", pending.game_id, pending.round_no, form.mode, 200,
                          [status |-> "thousand", winner |-> Some(out.winner),
                           end_points_team1 |-> out.end_points_team1,
                           end_points_team2 |-> out.end_points_team2])
                  ELSE Response("calculate", pending.game_id, pending.round_no, form.mode, 200,
                          [status |-> "ok", game_finished |-> sc.end.game_finished,
                           winner |-> sc.end.winner,
                           totals |-> [team1 |-> sc.total_team1, team2 |-> sc.total_team2]])
       /\ pending' = Idle
       /\ UNCHANGED sqlite_sequence

\* DROP TABLE IF EXISTS: no transaction is open and sqlite3 opens none for
\* DDL, so the statement commits by itself.
delete_drop_table(game_id) ==
    /\ pending = Idle
    /\ game_id \in DOMAIN Overview
    /\ tables' = [g \in DOMAIN tables \ {game_id} |-> tables[g]]
    /\ pending' = [Idle EXCEPT !.pc = "delete_row", !.game_id = game_id]
    /\ UNCHANGED <<Overview, sqlite_sequence, last>>

\* DELETE FROM Overview, commit, and the response.
delete_row ==
    /\ pending.pc = "delete_row"
    /\ Overview' = [g \in DOMAIN Overview \ {pending.game_id} |-> Overview[g]]
    /\ last' = Response("delete", pending.game_id, 0, "", 200, [ok |-> TRUE])
    /\ pending' = Idle
    /\ UNCHANGED <<tables, sqlite_sequence>>

\* The server process dies: the open transaction is rolled back, what was
\* committed stays, no response is sent.
crash ==
    /\ pending # Idle
    /\ pending' = Idle
    /\ UNCHANGED <<Overview, tables, sqlite_sequence, last>>

NextSteps ==
    \/ api_games /\ UNCHANGED pending
    \/ \E game_id \in GameIds : api_get_game(game_id) /\ UNCHANGED pending
    \/ \E form \in PlayerForms, mixing \in MixingForms :
          ~TxOpen /\ api_create_game(form, mixing) /\ UNCHANGED pending
    \/ \E game_id \in GameIds \ {pending.game_id}, round_no \in RoundNos, form \in StepForms :
          ~TxOpen /\ api_calculate_round(game_id, round_no, form) /\ UNCHANGED pending
    \/ \E game_id \in GameIds \ {pending.game_id} :
          ~TxOpen /\ api_delete_game(game_id) /\ UNCHANGED pending
    \/ \E form \in PlayerForms, mixing \in MixingForms : create_insert_overview(form, mixing)
    \/ create_ensure_game_table
    \/ create_insert_round
    \/ \E game_id \in GameIds, round_no \in RoundNos, form \in StepForms :
          calculate_read(game_id, round_no, form)
    \/ calculate_first_write
    \/ calculate_second_write
    \/ calculate_commit
    \/ \E game_id \in GameIds : delete_drop_table(game_id)
    \/ delete_row
    \/ crash

SpecSteps == Init /\ [][NextSteps]_vars

\* ------------------------------------------------------------------ claims

\* The ledger of a game as a reader sees it.
Ledger(tbls, game_id) == fetch_rounds(tbls, game_id)

Resolved(row) == row.bid_value # NULL

Terminal(ov, game_id) == ov[game_id].winner # NULL

\* The step is a served POST .../calculate.
Calculated == last'.op = "calculate"

\* The step is a POST .../calculate answered 200 in mode normal or einfach_ab.
Scored == Calculated /\ last'.status = 200 /\ last'.mode \in {"normal", "einfach_ab"}

TeamName(t) == IF t = 1 THEN "Team 1" ELSE "Team 2"

\* C1: a calculate on a game whose winner is set is answered with an error
\* and leaves the Overview row and every round row as they were.
C1_TerminalSessionRejects ==
    [][(Calculated /\ last'.game_id \in DOMAIN Overview
                   /\ Terminal(Overview, last'.game_id))
        => (last'.status # 200 /\ UNCHANGED <<Overview, tables>>)]_vars

\* C2: once a game's winner and end points are written, no later request
\* short of deleting the game changes them.
C2_OutcomeSetOnce ==
    [][\A g \in DOMAIN Overview \cap DOMAIN Overview' :
          Terminal(Overview, g)
          => /\ Overview'[g].winner = Overview[g].winner
             /\ Overview'[g].end_points_team1 = Overview[g].end_points_team1
             /\ Overview'[g].end_points_team2 = Overview[g].end_points_team2]_vars

\* C3: the round numbers of every game's ledger are exactly 1..k, k the
\* number of its rows; k is 0 only for a game a thousand round has ended.
C3_RoundNumbersContiguous ==
    \A g \in DOMAIN Overview :
       /\ g \in DOMAIN tables
       /\ \A i \in 1..Len(Ledger(tables, g)) : Ledger(tables, g)[i].round = Some(i)
       /\ Len(Ledger(tables, g)) = 0
          => /\ Terminal(Overview, g)
             /\ <<Overview[g].end_points_team1, Overview[g].end_points_team2>>
                  \in {<<Some(1000), Some(0)>>, <<Some(0), Some(1000)>>}

C3_Witness ==
    \E g \in DOMAIN Overview :
       /\ Len(Ledger(tables, g)) = 2
       /\ Resolved(Ledger(tables, g)[1])
       /\ ~Resolved(Ledger(tables, g)[2])

\* C4: the totals of a resolved round r > 1 are the totals of round r-1 plus
\* the results of round r; the totals of a resolved round 1 are its results.
C4_TotalsRecurrence ==
    \A g \in DOMAIN Overview :
       LET rs == Ledger(tables, g)
       IN \A i \in 1..Len(rs) :
             Resolved(rs[i])
             => IF rs[i].round = Some(1)
                THEN /\ rs[i].total_team1 = rs[i].result_team1
                     /\ rs[i].total_team2 = rs[i].result_team2
                     /\ rs[i].total_team1 # NULL
                ELSE \E j \in 1..Len(rs) :
                        /\ rs[j].round = Some(rs[i].round[1] - 1)
                        /\ rs[j].total_team1 # NULL /\ rs[j].total_team2 # NULL
                        /\ rs[i].total_team1
                             = Some(rs[j].total_team1[1] + rs[i].result_team1[1])
                        /\ rs[i].total_team2
                             = Some(rs[j].total_team2[1] + rs[i].result_team2[1])

C4_Witness ==
    \E g \in DOMAIN Overview :
       LET rs == Ledger(tables, g)
       IN /\ Len(rs) = 2
          /\ Resolved(rs[2])
          /\ rs[1].total_team1 # Some(0)
          /\ rs[2].result_team1 # Some(0)

\* n is not the highest round number of the ledger rs (none, if rs is empty).
NotHighest(rs, n) ==
    ~\E i \in 1..Len(rs) :
        rs[i].round = Some(n) /\ \A j \in 1..Len(rs) : rs[j].round[1] <= n

\* C5: a calculate on an existing game whose round_no is not the highest
\* round number of its ledger (or whose ledger is empty) is answered 400 and
\* changes neither the Overview nor any round row.
C5_OnlyLastRoundMutable ==
    [][(Calculated /\ last'.game_id \in DOMAIN Overview
                   /\ NotHighest(Ledger(tables, last'.game_id), last'.round_no))
        => (last'.status = 400 /\ UNCHANGED <<Overview, tables, sqlite_sequence>>)]_vars

\* An earlier round of a two-round ledger was posted and refused.
C5_Witness ==
    /\ last.op = "calculate" /\ last.status = 400
    /\ last.game_id \in DOMAIN Overview
    /\ Len(Ledger(tables, last.game_id)) = 2
    /\ last.round_no = 1

\* C6: a resolved round row is never changed or removed by a later calculate.
C6_ResolvedRoundImmutable ==
    [][Calculated
       => \A g \in DOMAIN tables \cap DOMAIN tables' :
             \A i \in 1..Len(tables[g]) :
                Resolved(tables[g][i])
                => \E j \in 1..Len(tables'[g]) : tables'[g][j] = tables[g][i]]_vars

\* The effect of a scored round that ends the game.
EndsGame(g, n) ==
    /\ Terminal(Overview', g)
    /\ Overview'[g].end_points_team1 = Ledger(tables', g)[n].total_team1
    /\ Overview'[g].end_points_team2 = Ledger(tables', g)[n].total_team2
    /\ Len(Ledger(tables', g)) = Len(Ledger(tables, g))

\* The effect of a scored round after which the game goes on.
OpensNextRound(g, n) ==
    /\ Overview'[g] = Overview[g]
    /\ Len(Ledger(tables', g)) = Len(Ledger(tables, g)) + 1
    /\ LET cur == Ledger(tables', g)[n]
           nxt == Ledger(tables', g)[n + 1]
       IN /\ nxt.round = Some(n + 1)
          /\ nxt.total_team1 = cur.total_team1
          /\ nxt.total_team2 = cur.total_team2
          /\ ~Resolved(nxt)
          /\ nxt.bid_team = NULL /\ nxt.confirmed = NULL
          /\ nxt.result_team1 = NULL /\ nxt.result_team2 = NULL

\* C7: a scored round n either ends the game (end points = the new totals,
\* no round appended) or leaves the outcome alone and appends exactly one
\* unresolved round n+1 that starts from the new totals; never both.
C7_WinOrNextRound ==
    [][Scored
       => LET g == last'.game_id
              n == last'.round_no
          IN /\ Len(Ledger(tables, g)) = n
             /\ Resolved(Ledger(tables', g)[n])
             /\ Ledger(tables', g)[n].total_team1
                  = Some(last'.body.totals.team1)
             /\ Ledger(tables', g)[n].total_team2
                  = Some(last'.body.totals.team2)
             /\ \A i \in 1..(n - 1) : Ledger(tables', g)[i] = Ledger(tables, g)[i]
             /\ IF last'.body.game_finished
                THEN EndsGame(g, n) /\ ~OpensNextRound(g, n)
                ELSE OpensNextRound(g, n) /\ ~EndsGame(g, n)]_vars

\* A scored round 1 was answered "not finished" and round 2 stands open.
C7_Witness ==
    /\ last.op = "calculate" /\ last.status = 200
    /\ last.mode \in {"normal", "einfach_ab"}
    /\ ~last.body.game_finished
    /\ last.round_no = 1
    /\ Len(Ledger(tables, last.game_id)) = 2
    /\ ~Terminal(Overview, last.game_id)

\* C8: a scored round ends the game for the bidding team iff that team's new
\* total is >= 1000, for the other team iff it is <= -1000, and not at all
\* otherwise; the other team's total plays no part.
C8_WinDetectionBiddingTeamOnly ==
    [][Scored
       => LET g == last'.game_id
              row == Ledger(tables', g)[last'.round_no]
              bidder == row.bid_team[1]
              own == IF bidder = 1 THEN row.total_team1[1] ELSE row.total_team2[1]
              finished == last'.body.game_finished
              winner == last'.body.winner
          IN /\ (finished /\ winner = Some(TeamName(bidder))) <=> own >= 1000
             /\ (finished /\ winner = Some(TeamName(3 - bidder))) <=> own <= -1000
             /\ ~finished <=> (-1000 < own /\ own < 1000)
             /\ ~finished => winner = NULL /\ Overview'[g] = Overview[g]
             /\ finished => Overview'[g].winner = winner]_vars

\* The team that did not bid stands at 1000 or more and the game goes on.
C8_Witness ==
    /\ last.op = "calculate" /\ last.status = 200
    /\ last.mode \in {"normal", "einfach_ab"}
    /\ ~last.body.game_finished
    /\ ~Terminal(Overview, last.game_id)
    /\ LET row == Ledger(tables, last.game_id)[last.round_no]
       IN \/ row.bid_team = Some(2) /\ row.total_team1[1] >= 1000
          \/ row.bid_team = Some(1) /\ row.total_team2[1] >= 1000

\* What a normal round must store, given what was posted.
NormalRow(row) ==
    LET bid == row.bid_value[1]
        sum1 == row.meld_team1[1] + row.play_team1[1]
        sum2 == row.meld_team2[1] + row.play_team2[1]
        own == IF row.bid_team = Some(1) THEN sum1 ELSE sum2
        made == own >= bid
    IN /\ row.confirmed = Some(1) <=> made
       /\ row.confirmed = Some(0) <=> ~made
       /\ row.bid_team = Some(1)
          => /\ row.result_team1 = Some(IF made THEN sum1 ELSE -2 * bid)
             /\ row.result_team2 = Some(sum2)
       /\ row.bid_team = Some(2)
          => /\ row.result_team2 = Some(IF made THEN sum2 ELSE -2 * bid)
             /\ row.result_team1 = Some(sum1)

\* C9: in normal mode the round is confirmed iff the bidding team's
\* meld + play reaches the bid; that team scores meld + play when confirmed
\* and -2 * bid otherwise; the other team scores its own meld + play.
C9_NormalModeScoring ==
    [][(Scored /\ last'.mode = "normal")
       => LET row == Ledger(tables', last'.game_id)[last'.round_no]
          IN /\ row.bid_team \in {Some(1), Some(2)}
             /\ NormalRow(row)
             /\ normal_result([BaseForm EXCEPT !.meld_team1 = 100, !.play_team1 = 150])
                   .result_team1 = 250
             /\ normal_result([BaseForm EXCEPT !.meld_team1 = 100, !.play_team1 = 150])
                   .confirmed = 1
             /\ normal_result(BaseForm).result_team1 = -440
             /\ normal_result(BaseForm).confirmed = 0]_vars

\* Team 1 bid 220 with meld 50 and play 100: not confirmed, -440.
C9_Witness ==
    /\ last.op = "calculate" /\ last.status = 200 /\ last.mode = "normal"
    /\ LET row == Ledger(tables, last.game_id)[last.round_no]
       IN /\ row.bid_team = Some(1) /\ row.bid_value = Some(220)
          /\ row.meld_team1 = Some(50) /\ row.play_team1 = Some(100)
          /\ row.confirmed = Some(0) /\ row.result_team1 = Some(-440)

\* C10: in einfach_ab mode the bidding team scores -bid whatever it melded
\* and played, the other team scores its own meld + play, and confirmed is 0.
C10_EinfachAbScoring ==
    [][(Scored /\ last'.mode = "einfach_ab")
       => LET row == Ledger(tables', last'.game_id)[last'.round_no]
              bid == row.bid_value[1]
              sum1 == row.meld_team1[1] + row.play_team1[1]
              sum2 == row.meld_team2[1] + row.play_team2[1]
          IN /\ row.bid_team \in {Some(1), Some(2)}
             /\ row.confirmed = Some(0)
             /\ row.bid_team = Some(1)
                => row.result_team1 = Some(-bid) /\ row.result_team2 = Some(sum2)
             /\ row.bid_team = Some(2)
                => row.result_team2 = Some(-bid) /\ row.result_team1 = Some(sum1)]_vars

\* Team 2 conceded a bid of 220 that its meld + play of 1000 would have made.
C10_Witness ==
    /\ last.op = "calculate" /\ last.status = 200 /\ last.mode = "einfach_ab"
    /\ LET row == Ledger(tables, last.game_id)[last.round_no]
       IN /\ row.bid_team = Some(2) /\ row.bid_value = Some(220)
          /\ row.meld_team2[1] + row.play_team2[1] >= 220
          /\ row.confirmed = Some(0) /\ row.result_team2 = Some(-220)

\* --------------------------------------------------------------- C11 .. C15

ThousandForms == {form \in CalcForms : form.mode = "thousand"}

\* C11: a calculate in mode "thousand" that succeeds makes the bidding team
\* the winner with end points 1000 against 0, whatever the totals were,
\* removes row round_no (the last one) from the ledger, appends no row and
\* leaves the earlier rows as they were.
C11_ThousandEndsGame ==
    [][\A form \in ThousandForms :
          (/\ Calculated /\ last'.status = 200 /\ last'.mode = "thousand"
           /\ api_calculate_round(last'.game_id, last'.round_no, form))
          => LET g == last'.game_id
                 n == last'.round_no
                 old == Ledger(tables, g)
             IN /\ Terminal(Overview', g)
                /\ Overview'[g].winner = Some(TeamName(form.bid_team))
                /\ Overview'[g].end_points_team1
                     = Some(IF form.bid_team = 1 THEN 1000 ELSE 0)
                /\ Overview'[g].end_points_team2
                     = Some(IF form.bid_team = 2 THEN 1000 ELSE 0)
                /\ Len(old) = n
                /\ Ledger(tables', g) = SubSeq(old, 1, n - 1)]_vars

\* Team 2 took round 2 by "thousand" while it stood behind Team 1 after
\* round 1, which is still in the ledger.
C11_Witness ==
    /\ last.op = "calculate" /\ last.status = 200 /\ last.mode = "thousand"
    /\ last.round_no = 2
    /\ Overview[last.game_id].winner = Some("Team 2")
    /\ Overview[last.game_id].end_points_team1 = Some(0)
    /\ Len(Ledger(tables, last.game_id)) = 1
    /\ Resolved(Ledger(tables, last.game_id)[1])
    /\ Ledger(tables, last.game_id)[1].total_team1[1]
         > Ledger(tables, last.game_id)[1].total_team2[1]

MixingRotates(tbls) ==
    \A g \in DOMAIN tbls :
       LET rs == Ledger(tbls, g)
       IN \A i \in 1..Len(rs) :
             /\ rs[i].mixing # NULL
             /\ rs[i].mixing[1] \in 1..4
             /\ i < Len(rs) => rs[i + 1].mixing[1] = (rs[i].mixing[1] % 4) + 1

\* Every mixing_first_round from below 1 to above 4, with few form values, so
\* that each step of the rotation is taken within MaxRows.
AllMixingForms == 0..5

RotationForms ==
    {BaseForm, [BaseForm EXCEPT !.mode = "thousand", !.bid_team = 2],
     [BaseForm EXCEPT !.bid_value = 190]}

NextRotation ==
    \/ api_games /\ UNCHANGED pending
    \/ \E form \in PlayerForms, mixing \in AllMixingForms :
          api_create_game(form, mixing) /\ UNCHANGED pending
    \/ \E game_id \in GameIds, round_no \in RoundNos, form \in RotationForms :
          api_calculate_round(game_id, round_no, form) /\ UNCHANGED pending
    \/ \E game_id \in GameIds : api_get_game(game_id) /\ UNCHANGED pending
    \/ \E game_id \in GameIds : api_delete_game(game_id) /\ UNCHANGED pending

SpecRotation == Init /\ [][NextRotation]_vars

\* C12: every row's mixing is one of 1..4, a row that follows another has
\* the mixing after it in the cycle 1, 2, 3, 4, 1, and the row a create
\* inserts is round 1 with the posted mixing_first_round.
C12_MixingRotation ==
    [][/\ MixingRotates(tables')
       /\ \A form \in PlayerForms, mixing \in AllMixingForms :
             (/\ last'.op = "create" /\ last'.status = 200
              /\ api_create_game(form, mixing))
             => /\ mixing \in 1..4
                /\ Ledger(tables', last'.game_id)
                     = <<NewRound(1, mixing, NULL, NULL)>>
       /\ \A g \in DOMAIN tables \cap DOMAIN tables' :
             (Ledger(tables, g) # <<>> /\ Ledger(tables', g) # <<>>)
             => Ledger(tables', g)[1].mixing = Ledger(tables, g)[1].mixing]_vars

\* Round 1 was scored without ending the game, and round 2 stands open with
\* the mixing after round 1's.
C12_Witness ==
    /\ last.op = "calculate" /\ last.status = 200 /\ ~Terminal(Overview, last.game_id)
    /\ Len(Ledger(tables, last.game_id)) = 2
    /\ Ledger(tables, last.game_id)[1].mixing = Some(2)
    /\ Ledger(tables, last.game_id)[2].mixing = Some(3)

\* C13 (as the code has it): end points are never NULL; they are 0 and 0
\* exactly while winner is NULL, and a game just created has winner NULL and
\* end points 0 and 0.
C13_EndPointsZeroUntilWinner ==
    /\ \A g \in DOMAIN Overview :
          /\ Overview[g].end_points_team1 # NULL
          /\ Overview[g].end_points_team2 # NULL
          /\ Overview[g].winner = NULL
               <=> (/\ Overview[g].end_points_team1 = Some(0)
                    /\ Overview[g].end_points_team2 = Some(0))
    /\ (last.op = "create" /\ last.status = 200)
          => /\ Overview[last.game_id].winner = NULL
             /\ Overview[last.game_id].end_points_team1 = Some(0)
             /\ Overview[last.game_id].end_points_team2 = Some(0)

\* Game 2 was just created while game 1 has a winner.
C13_Witness ==
    /\ last.op = "create" /\ last.status = 200
    /\ \E g \in DOMAIN Overview : g # last.game_id /\ Terminal(Overview, g)

\* C13 as stated: winner is non-NULL iff both end points are non-NULL, and a
\* game just created has all three NULL.
C13_WinnerIffEndPoints ==
    /\ \A g \in DOMAIN Overview :
          Overview[g].winner # NULL
            <=> (/\ Overview[g].end_points_team1 # NULL
                 /\ Overview[g].end_points_team2 # NULL)
    /\ (last.op = "create" /\ last.status = 200)
          => /\ Overview[last.game_id].winner = NULL
             /\ Overview[last.game_id].end_points_team1 = NULL
             /\ Overview[last.game_id].end_points_team2 = NULL

\* C14: every meld and play value stored in a ledger is non-negative.
C14_MeldPlayNonNegative ==
    \A g \in DOMAIN tables :
       \A i \in 1..Len(tables[g]) :
          Resolved(tables[g][i])
            => /\ tables[g][i].meld_team1[1] >= 0
               /\ tables[g][i].meld_team2[1] >= 0
               /\ tables[g][i].play_team1[1] >= 0
               /\ tables[g][i].play_team2[1] >= 0

WellFormedBid(row) ==
    /\ row.bid_value[1] >= 200
    /\ row.bid_value[1] % 10 = 0
    /\ row.bid_team[1] \in {1, 2}

\* C15: a calculate that is answered with an error changes no row; a form
\* with bid_value < 200 or off the step of 10, bid_team outside {1, 2} or an
\* unknown mode is answered 400, a well-formed one for a missing game 404;
\* so every resolved row has a bid_value >= 200 in steps of 10 and a
\* bid_team of 1 or 2.
C15_RejectedCallChangesNothing ==
    [][/\ (Calculated /\ last'.status # 200)
            => (last'.status \in {400, 404} /\ UNCHANGED <<Overview, tables>>)
       /\ (Calculated /\ last'.game_id \notin DOMAIN Overview)
            => last'.status # 200
       /\ (Calculated /\ last'.status = 200)
            => last'.mode \in {"normal", "einfach_ab", "thousand"}
       /\ \A form \in InvalidForms :
             (Calculated
              /\ api_calculate_round(last'.game_id, last'.round_no, form))
             => (last'.status = 400 /\ UNCHANGED <<Overview, tables>>)
       /\ \A g \in DOMAIN tables' :
             \A i \in 1..Len(tables'[g]) :
                Resolved(tables'[g][i]) => WellFormedBid(tables'[g][i])]_vars

\* A calculate for the open last round of an existing game was answered 400:
\* the form was malformed, and the round is still open.
C15_Witness ==
    /\ last.op = "calculate" /\ last.status = 400
    /\ last.game_id \in DOMAIN Overview
    /\ Len(Ledger(tables, last.game_id)) = last.round_no
    /\ ~Resolved(Ledger(tables, last.game_id)[last.round_no])
    /\ \E g \in DOMAIN tables : \E i \in 1..Len(tables[g]) : Resolved(tables[g][i])

\* --------------------------------------------------------------- C16 .. C17

OutcomeVisible(ov, g, row) ==
    /\ g \in DOMAIN ov
    /\ Terminal(ov, g)
    /\ ov[g].end_points_team1 = row.total_team1
    /\ ov[g].end_points_team2 = row.total_team2

NextRoundVisible(rows, i) ==
    /\ Len(rows) > i
    /\ rows[i + 1].round = Some(rows[i].round[1] + 1)
    /\ ~Resolved(rows[i + 1])
    /\ rows[i + 1].total_team1 = rows[i].total_team1
    /\ rows[i + 1].total_team2 = rows[i].total_team2

C17_LedgerCreatedWithGame ==
    \A g \in DOMAIN Overview :
       /\ g \in DOMAIN tables
       /\ Overview[g].winner = NULL
            => /\ Ledger(tables, g) # <<>>
               /\ Ledger(tables, g)[1].round = Some(1)
               /\ Ledger(tables, g)[1].mixing \in {Some(m) : m \in 1..4}
       /\ (pending.pc \in {"create_table", "create_round"} /\ pending.game_id = g)
            => /\ Ledger(tables, g) # <<>>
               /\ Ledger(tables, g)[1].mixing = Some(pending.mixing)

\* --------------------------------------------------------------- C18 .. C20

WellFormedForms == ValidForms \cup NegativeForms

\* Ids handed out so far that have no Overview row any more.
Deleted(g) == g \in 1..sqlite_sequence /\ g \notin DOMAIN Overview

C19_DeleteMissingNotFound ==
    [][(last'.op = "delete" /\ last'.game_id \notin DOMAIN Overview)
       => (last'.status = 404 /\ UNCHANGED <<Overview, tables, sqlite_sequence>>)]_vars

\* The second delete of game 1.
C19_Witness ==
    /\ last.op = "delete" /\ last.status = 404
    /\ Deleted(last.game_id)

\* C19 as stated: a delete for an id without an Overview row succeeds and
\* changes nothing.
C19_DeleteMissingSucceeds ==
    [][(last'.op = "delete" /\ last'.game_id \notin DOMAIN Overview)
       => (last'.status = 200 /\ UNCHANGED <<Overview, tables, sqlite_sequence>>)]_vars

OthersUnchanged(g) ==
    /\ \A b \in DOMAIN Overview \ {g} :
          b \in DOMAIN Overview' /\ Overview'[b] = Overview[b]
    /\ \A b \in DOMAIN tables \ {g} :
          b \in DOMAIN tables' /\ tables'[b] = tables[b]

\* C20: a create that succeeds returns an id that no game has or had, with
\* a ledger of its own holding the one fresh round 1, also when the same
\* names and mixing were posted before; a create, calculate or delete for
\* one game leaves the Overview row and the ledger of every other game as
\* they were.
C20_GamesIsolated ==
    [][/\ (last'.op = "create" /\ last'.status = 200)
            => /\ last'.game_id \notin 1..sqlite_sequence
               /\ last'.game_id \notin DOMAIN Overview \cup DOMAIN tables
               /\ last'.game_id \in DOMAIN Overview' \cap DOMAIN tables'
               /\ Len(Ledger(tables', last'.game_id)) = 1
               /\ ~Resolved(Ledger(tables', last'.game_id)[1])
               /\ OthersUnchanged(last'.game_id)
       /\ (last'.op \in {"calculate", "delete"}) => OthersUnchanged(last'.game_id)]_vars

\* Two games were created from the same names; round 1 of one of them was
\* scored, the other still has its open round 1.
C20_Witness ==
    /\ DOMAIN Overview = {1, 2}
    /\ Overview[1].team1 = Overview[2].team1 /\ Overview[1].team2 = Overview[2].team2
    /\ last.op = "calculate" /\ last.status = 200
    /\ last.mode = "normal"
    /\ Resolved(Ledger(tables, last.game_id)[1])
    /\ Terminal(Overview, last.game_id)
    /\ \E b \in DOMAIN Overview \ {last.game_id} :
          /\ ~Terminal(Overview, b)
          /\ Len(Ledger(tables, b)) = 1 /\ ~Resolved(Ledger(tables, b)[1])

\* --------------------------------------------------------------- C21 .. C22

\* The ledger of a game without a winner: rows, the last one open, the
\* others resolved.
LiveLedger(rows) ==
    /\ rows # <<>>
    /\ ~Resolved(rows[Len(rows)])
    /\ \A i \in 1..(Len(rows) - 1) : Resolved(rows[i])

\* C21: after every request a game without a winner has a ledger that is
\* not empty, whose highest round is open and whose other rounds are
\* resolved; no ledger has two open rounds; and a calculate for the highest
\* round of such a game is refused only if its form is malformed.
C21_LiveGameHasOneOpenRound ==
    [][/\ \A g \in DOMAIN Overview' :
             /\ g \in DOMAIN tables'
             /\ ~Terminal(Overview', g) => LiveLedger(Ledger(tables', g))
       /\ \A g \in DOMAIN tables' :
             Cardinality({i \in 1..Len(tables'[g]) : ~Resolved(tables'[g][i])}) <= 1
       /\ (/\ Calculated /\ last'.status # 200
           /\ last'.game_id \in DOMAIN Overview
           /\ ~Terminal(Overview, last'.game_id)
           /\ Len(Ledger(tables, last'.game_id)) = last'.round_no)
            => \E form \in InvalidForms :
                  api_calculate_round(last'.game_id, last'.round_no, form)]_vars

\* A game without a winner whose round 1 is resolved and round 2 open, after
\* a calculate for its round 2 was refused.
C21_Witness ==
    /\ last.op = "calculate" /\ last.status = 400
    /\ last.game_id \in DOMAIN Overview /\ ~Terminal(Overview, last.game_id)
    /\ last.round_no = 2
    /\ Len(Ledger(tables, last.game_id)) = 2
    /\ Resolved(Ledger(tables, last.game_id)[1])
    /\ ~Resolved(Ledger(tables, last.game_id)[2])

\* Highest index of a resolved row, 0 if there is none.
LastResolved(rows) ==
    IF \E i \in 1..Len(rows) : Resolved(rows[i])
    THEN CHOOSE i \in 1..Len(rows) :
            Resolved(rows[i]) /\ \A j \in (i + 1)..Len(rows) : ~Resolved(rows[j])
    ELSE 0

\* C22: in a game without a winner the team that bid in the most recently
\* resolved round stands strictly between -1000 and 1000 (the other team may
\* stand anywhere); in a game with winner W, W's end points are >= 1000 or
\* the other team's are <= -1000.
C22_TotalsWithinLimits ==
    \A g \in DOMAIN Overview :
       IF Terminal(Overview, g)
       THEN LET won == IF Overview[g].winner = Some("Team 1")
                       THEN Overview[g].end_points_team1[1]
                       ELSE Overview[g].end_points_team2[1]
                lost == IF Overview[g].winner = Some("Team 1")
                        THEN Overview[g].end_points_team2[1]
                        ELSE Overview[g].end_points_team1[1]
            IN /\ Overview[g].winner \in {Some("Team 1"), Some("Team 2")}
               /\ won >= 1000 \/ lost <= -1000
       ELSE LET rows == Ledger(tables, g)
                k == LastResolved(rows)
            IN k > 0
                 => LET own == IF rows[k].bid_team = Some(1)
                               THEN rows[k].total_team1[1]
                               ELSE rows[k].total_team2[1]
                    IN -1000 < own /\ own < 1000

\* A game goes on, its round 2 open, although the team that did not bid in
\* round 1 has 1000 or more.
C22_Witness ==
    \E g \in DOMAIN Overview :
       /\ ~Terminal(Overview, g)
       /\ Len(Ledger(tables, g)) = 2
       /\ LastResolved(Ledger(tables, g)) = 1
       /\ LET row == Ledger(tables, g)[1]
          IN \/ row.bid_team = Some(2) /\ row.total_team1[1] >= 1000
             \/ row.bid_team = Some(1) /\ row.total_team2[1] >= 1000

====
